---- MODULE Spec2Model ----
(***************************************************************************)
(* Connection-to-worker stream supervisor of the face recognition / chat  *)
(* server (the WebSocket part of server.js, listed in README.md), and the *)
(* stdout framer its workers are read through.                            *)
(*                                                                         *)
(* Spec        the supervisor: connections, child processes, the two      *)
(*             registries, the restart timers and the clock.              *)
(* FramerSpec  one worker's stdout 'data' handler fed with a chunked byte *)
(*             stream.                                                     *)
(***************************************************************************)
EXTENDS Integers, Sequences, FiniteSets, TLC

\* ---------------------------------------------------------------- bounds
MaxConns == 2        \* connections accepted in one run
MaxWorkers == 3      \* child processes spawned in one run
MaxTime == 2000      \* last clock value (ms)
TickStep == 500      \* clock advance of one Tick (ms)
MaxLines == 3        \* lines a worker writes and messages its client sends in one run
MaxStarts == 2       \* times the page's user starts the stream in one run
MaxFrames == 3       \* frames the page sends, and messages it receives, in one run

\* ------------------------------------------------------ program constants
BACKOFF_MS == 1000
NULL == 0

Conns == 1..MaxConns
Urls == {"/chat", "/ws"}

VARIABLES
    now,                   \* Date.now()
    readyState,            \* ws.readyState per connection ("NONE" before acceptance)
    url,                   \* req.url
    clientId,              \* const clientId of the connection closure
    chatProcess,           \* let chatProcess of the connection closure (pid or NULL)
    recognitionProcess,    \* let recognitionProcess of the connection closure
    recognitionProcesses,  \* Map clientId -> child process
    chatProcesses,         \* Map clientId -> child process
    procs,                 \* every child process spawned so far, indexed by pid
    timers,                \* pending setTimeout callbacks
    sent,                  \* the ws.send calls of the step just taken
    lastWrite,             \* the stdin.write of the step just taken
    \* --- one worker's stdout pipeline (FramerSpec)
    emitted,               \* the lines the worker writes, as byte strings
    stdout,                \* the bytes of them not yet delivered in a 'data' event
    handler,               \* whose 'data' handler reads them: "chat" or "recognition"
    buffer,                \* let buffer of the handler's closure
    wsReadyState,          \* ws.readyState of the client the handler sends to
    delivered,             \* what ws.send was called with, in order
    errorLog,              \* the lines logger.error was called with, in order
    lines,                 \* the lines split off the buffer so far, in order
    received,              \* the messages the client sent, in order of receipt
    stdin,                 \* what stdin.write was called with, in order
    stderrLog,             \* what the 'data' handler of stderr logged, in order
    tail,                  \* what the worker wrote after its last '\n'
    exited,                \* the worker's 'close' event has been handled
    \* --- the recognition page in the browser (ClientSpec)
    socketState,           \* readyState of every WebSocket the page has made
    wsRef,                 \* wsRef.current: the socket made last, or NULL
    connectionStatus,      \* the component's connectionStatus
    processingRef,         \* processingRef.current
    starts,                \* calls of startStream so far
    intervals,             \* the setInterval timers that are running
    frameIntervalRef,      \* frameIntervalRef.current: the timer set last, or NULL
    framesSent,            \* calls of wsRef.current.send so far
    messagesReceived       \* 'message' events handled so far

supVars == <<now, readyState, url, clientId, chatProcess, recognitionProcess,
             recognitionProcesses, chatProcesses, procs, timers, sent,
             lastWrite>>

framerVars == <<emitted, stdout, handler, buffer, wsReadyState, delivered,
               errorLog, lines, received, stdin, stderrLog, tail, exited>>

clientVars == <<socketState, wsRef, connectionStatus, processingRef, starts,
               intervals, frameIntervalRef, framesSent, messagesReceived>>

vars == <<supVars, framerVars, clientVars>>

\* Number.prototype.toString(): the decimal digits of n, most significant first
RECURSIVE DecimalString(_)
DecimalString(n) == IF n < 10 THEN <<n>> ELSE Append(DecimalString(n \div 10), n % 10)

\* -------------------------------------------------------------- Map
EmptyMap == [k \in {} |-> NULL]

MapHas(m, k) == k \in DOMAIN m

MapSet(m, k, v) == [x \in (DOMAIN m) \cup {k} |-> IF x = k THEN v ELSE m[x]]

MapDelete(m, k) == [x \in (DOMAIN m) \ {k} |-> m[x]]

\* -------------------------------------------------------------- messages
RestartNotice ==
    [type |-> "system", message |-> "Chat process terminated, restarting..."]

ChatSpawnFailNotice ==
    [type |-> "system", message |-> "Unable to start chat service. Please try again later."]

RecognitionSpawnFailNotice ==
    [type |-> "system", message |-> "Failed to start recognition service. Please try again."]

InvalidFormatNotice ==
    [type |-> "system", message |-> "Invalid message format. Please try again."]

\* if (ws.readyState === WebSocket.OPEN) ws.send(JSON.stringify(m))
WsSend(rs, c, m) ==
    IF rs[c] = "OPEN" THEN <<[conn |-> c, msg |-> m]>> ELSE << >>

\* what a client can send: a JSON text with a type field, or text that
\* JSON.parse rejects
ClientMessages ==
    [wellFormed : {TRUE}, type : {"query", "frame", "ping"}]
        \cup {[wellFormed |-> FALSE, type |-> "none"]}

\* -------------------------------------------------------------- processes
IsChatWs(c) == url[c] = "/chat"

Pids == 1..Len(procs)

\* spawn('python', [...]): a fresh child process, its handlers closed over
\* connection c
NewProc(c) ==
    [owner |-> c, alive |-> TRUE, killed |-> FALSE, spont |-> FALSE]

\* process.kill()
Kill(P, w) == [P EXCEPT ![w].killed = TRUE]

\* process.stdin.write(...) in the message handler of connection c; alive
\* tells whether the process's 'close' event had been handled by then
NoWrite == [conn |-> NULL, pid |-> NULL, alive |-> FALSE]

\* a write to whatever the registry holds under the connection's id
StdinWrite_ViaRegistry(c, w) ==
    LET reg == IF IsChatWs(c) THEN chatProcesses ELSE recognitionProcesses
        t == IF MapHas(reg, clientId[c]) THEN reg[clientId[c]] ELSE w
    IN [conn |-> c, pid |-> t, alive |-> procs[t].alive]

StdinWrite(c, w) == [conn |-> c, pid |-> w, alive |-> procs[w].alive]

FramerIdle ==
    /\ emitted = << >>
    /\ stdout = << >>
    /\ handler = "recognition"
    /\ buffer = << >>
    /\ wsReadyState = "OPEN"
    /\ delivered = << >>
    /\ errorLog = << >>
    /\ lines = << >>
    /\ received = << >>
    /\ stdin = << >>
    /\ stderrLog = << >>
    /\ tail = << >>
    /\ exited = FALSE

SupervisorInit ==
    /\ now = 0
    /\ readyState = [c \in Conns |-> "NONE"]
    /\ url = [c \in Conns |-> "/ws"]
    /\ clientId = [c \in Conns |-> << >>]
    /\ chatProcess = [c \in Conns |-> NULL]
    /\ recognitionProcess = [c \in Conns |-> NULL]
    /\ recognitionProcesses = EmptyMap
    /\ chatProcesses = EmptyMap
    /\ procs = << >>
    /\ timers = {}
    /\ sent = << >>
    /\ lastWrite = NoWrite

\* the page before its user has done anything
Sockets == 1..MaxStarts

ClientIdle ==
    /\ socketState = [k \in Sockets |-> "NONE"]
    /\ wsRef = NULL
    /\ connectionStatus = "disconnected"
    /\ processingRef = FALSE
    /\ starts = 0
    /\ intervals = {}
    /\ frameIntervalRef = NULL
    /\ framesSent = 0
    /\ messagesReceived = 0

Init == SupervisorInit /\ FramerIdle /\ ClientIdle

\* Date.now() moves on
Tick ==
    /\ now + TickStep <= MaxTime
    /\ now' = now + TickStep
    /\ sent' = << >>
    /\ lastWrite' = NoWrite
    /\ UNCHANGED <<readyState, url, clientId, chatProcess, recognitionProcess,
                   recognitionProcesses, chatProcesses, procs, timers>>
    /\ UNCHANGED framerVars
    /\ UNCHANGED clientVars

\* ------------------------------------------------------- startChatProcess
\* startChatProcess(clientId, ws): spawn and register, or (spawn threw) tell
\* the client; rs is ws.readyState as the caller sees it
StartChatProcess(id, c, ok, rs) ==
    IF ok
    THEN /\ procs' = Append(procs, NewProc(c))
         /\ chatProcesses' = MapSet(chatProcesses, id, Len(procs) + 1)
         /\ sent' = << >>
    ELSE /\ procs' = procs
         /\ chatProcesses' = chatProcesses
         /\ sent' = WsSend(rs, c, ChatSpawnFailNotice)

\* its return value: the child process, or null from the catch block
StartChatResult(ok) == IF ok THEN Len(procs) + 1 ELSE NULL

\* startRecognitionProcess(), defined and called in the connection handler
StartRecognitionProcess(id, c, ok, rs) ==
    IF ok
    THEN /\ procs' = Append(procs, NewProc(c))
         /\ recognitionProcess' = [recognitionProcess EXCEPT ![c] = Len(procs) + 1]
         /\ recognitionProcesses' = MapSet(recognitionProcesses, id, Len(procs) + 1)
         /\ sent' = << >>
    ELSE /\ procs' = procs
         /\ recognitionProcess' = recognitionProcess
         /\ recognitionProcesses' = recognitionProcesses
         /\ sent' = WsSend(rs, c, RecognitionSpawnFailNotice)

\* -------------------------------------------------- wss.on('connection')
\* a server that turns away a request for a target it does not know
Connect_Reject(c, u, ok) ==
    /\ readyState[c] = "NONE"
    /\ \A d \in Conns : d < c => readyState[d] # "NONE"
    /\ ok => Len(procs) < MaxWorkers
    /\ url' = [url EXCEPT ![c] = u]
    /\ clientId' = [clientId EXCEPT ![c] = DecimalString(now)]
    /\ IF u = "/chat"
       THEN /\ readyState' = [readyState EXCEPT ![c] = "OPEN"]
            /\ StartChatProcess(DecimalString(now), c, ok, readyState')
            /\ chatProcess' = [chatProcess EXCEPT ![c] = StartChatResult(ok)]
            /\ UNCHANGED <<recognitionProcess, recognitionProcesses>>
       ELSE IF u = "/ws"
       THEN /\ readyState' = [readyState EXCEPT ![c] = "OPEN"]
            /\ StartRecognitionProcess(DecimalString(now), c, ok, readyState')
            /\ UNCHANGED <<chatProcess, chatProcesses>>
       ELSE /\ readyState' = [readyState EXCEPT ![c] = "CLOSED"]
            /\ sent' = << >>
            /\ UNCHANGED <<chatProcess, chatProcesses, recognitionProcess,
                           recognitionProcesses, procs>>
    /\ lastWrite' = NoWrite
    /\ UNCHANGED <<now, timers>>
    /\ UNCHANGED framerVars
    /\ UNCHANGED clientVars

\* connections are numbered in the order they are accepted
Connect(c, u, ok) ==
    /\ readyState[c] = "NONE"
    /\ \A d \in Conns : d < c => readyState[d] # "NONE"
    /\ ok => Len(procs) < MaxWorkers
    /\ readyState' = [readyState EXCEPT ![c] = "OPEN"]
    /\ url' = [url EXCEPT ![c] = u]
    /\ clientId' = [clientId EXCEPT ![c] = DecimalString(now)]
    /\ IF u = "/chat"
       THEN /\ StartChatProcess(DecimalString(now), c, ok, readyState')
            /\ chatProcess' = [chatProcess EXCEPT ![c] = StartChatResult(ok)]
            /\ UNCHANGED <<recognitionProcess, recognitionProcesses>>
       ELSE /\ StartRecognitionProcess(DecimalString(now), c, ok, readyState')
            /\ UNCHANGED <<chatProcess, chatProcesses>>
    /\ lastWrite' = NoWrite
    /\ UNCHANGED <<now, timers>>
    /\ UNCHANGED framerVars
    /\ UNCHANGED clientVars

\* ------------------------------------------------ ws.on('message') (chat)
ChatWsMessage(c, m) ==
    /\ readyState[c] = "OPEN"
    /\ IsChatWs(c)
    /\ IF m.wellFormed
       THEN /\ IF m.type = "query" /\ chatProcess[c] # NULL
               THEN lastWrite' = StdinWrite(c, chatProcess[c])
               ELSE lastWrite' = NoWrite
            /\ sent' = << >>
       ELSE /\ sent' = WsSend(readyState, c, InvalidFormatNotice)
            /\ lastWrite' = NoWrite
    /\ UNCHANGED <<now, readyState, url, clientId, chatProcess, recognitionProcess,
                   recognitionProcesses, chatProcesses, procs, timers>>
    /\ UNCHANGED framerVars
    /\ UNCHANGED clientVars

\* ----------------------------------------- ws.on('message') (recognition)
RecognitionWsMessage(c, m) ==
    /\ readyState[c] = "OPEN"
    /\ ~IsChatWs(c)
    /\ IF m.wellFormed /\ m.type = "frame" /\ recognitionProcess[c] # NULL
       THEN lastWrite' = StdinWrite(c, recognitionProcess[c])
       ELSE lastWrite' = NoWrite
    /\ sent' = << >>
    /\ UNCHANGED <<now, readyState, url, clientId, chatProcess, recognitionProcess,
                   recognitionProcesses, chatProcesses, procs, timers>>
    /\ UNCHANGED framerVars
    /\ UNCHANGED clientVars

\* a teardown that kills the closure's process whatever the registry holds
ChatWsClose_KillClosure(c) ==
    /\ readyState[c] = "OPEN"
    /\ IsChatWs(c)
    /\ readyState' = [readyState EXCEPT ![c] = "CLOSED"]
    /\ procs' = IF chatProcess[c] # NULL THEN Kill(procs, chatProcess[c]) ELSE procs
    /\ chatProcesses' = MapDelete(chatProcesses, clientId[c])
    /\ UNCHANGED <<now, url, clientId, chatProcess, recognitionProcess,
                   recognitionProcesses, timers>>
    /\ sent' = << >>
    /\ lastWrite' = NoWrite
    /\ UNCHANGED framerVars
    /\ UNCHANGED clientVars

\* -------------------------------------------------- ws.on('close') (chat)
ChatWsClose(c) ==
    /\ readyState[c] = "OPEN"
    /\ IsChatWs(c)
    /\ readyState' = [readyState EXCEPT ![c] = "CLOSED"]
    /\ IF MapHas(chatProcesses, clientId[c])
       THEN /\ procs' = Kill(procs, chatProcesses[clientId[c]])
            /\ chatProcesses' = MapDelete(chatProcesses, clientId[c])
       ELSE UNCHANGED <<procs, chatProcesses>>
    /\ UNCHANGED <<now, url, clientId, chatProcess, recognitionProcess,
                   recognitionProcesses, timers>>
    /\ sent' = << >>
    /\ lastWrite' = NoWrite
    /\ UNCHANGED framerVars
    /\ UNCHANGED clientVars

\* ------------------------------------------- ws.on('close') (recognition)
RecognitionWsClose(c) ==
    /\ readyState[c] = "OPEN"
    /\ ~IsChatWs(c)
    /\ readyState' = [readyState EXCEPT ![c] = "CLOSED"]
    /\ IF MapHas(recognitionProcesses, clientId[c])
       THEN /\ procs' = Kill(procs, recognitionProcesses[clientId[c]])
            /\ recognitionProcesses' = MapDelete(recognitionProcesses, clientId[c])
       ELSE UNCHANGED <<procs, recognitionProcesses>>
    /\ UNCHANGED <<now, url, clientId, chatProcess, recognitionProcess,
                   chatProcesses, timers>>
    /\ sent' = << >>
    /\ lastWrite' = NoWrite
    /\ UNCHANGED framerVars
    /\ UNCHANGED clientVars

\* ----------------------------------------------- child process 'close'
\* the process is gone: spont records an exit no kill() preceded
Exited(P, w) == [P EXCEPT ![w].alive = FALSE, ![w].spont = ~P[w].killed]

\* a restart that is scheduled for a session's first worker only
SetRestartTimer_Once(T, c, w) ==
    IF \E v \in Pids : v < w /\ procs[v].owner = c
    THEN T
    ELSE T \cup {[conn |-> c, due |-> now + BACKOFF_MS, from |-> w]}

\* a restart scheduled twice for one exit
SetRestartTimer_Twice(T, c, w) ==
    T \cup {[conn |-> c, due |-> now + BACKOFF_MS, from |-> w],
            [conn |-> c, due |-> now + BACKOFF_MS, from |-> NULL]}

\* setTimeout(() => startChatProcess(clientId, ws), 1000)
SetRestartTimer(T, c, w) ==
    T \cup {[conn |-> c, due |-> now + BACKOFF_MS, from |-> w]}

\* a 'close' handler that leaves the registry entry in place
ChatProcessClose_KeepEntry(w) ==
    /\ w \in Pids
    /\ procs[w].alive
    /\ IsChatWs(procs[w].owner)
    /\ procs' = Exited(procs, w)
    /\ sent' = WsSend(readyState, procs[w].owner, RestartNotice)
    /\ timers' = IF readyState[procs[w].owner] = "OPEN"
                 THEN SetRestartTimer(timers, procs[w].owner, w)
                 ELSE timers
    /\ lastWrite' = NoWrite
    /\ UNCHANGED <<now, readyState, url, clientId, chatProcess, recognitionProcess,
                   recognitionProcesses, chatProcesses>>
    /\ UNCHANGED framerVars
    /\ UNCHANGED clientVars

\* chatProcess.on('close')
ChatProcessClose(w) ==
    /\ w \in Pids
    /\ procs[w].alive
    /\ IsChatWs(procs[w].owner)
    /\ procs' = Exited(procs, w)
    /\ chatProcesses' = MapDelete(chatProcesses, clientId[procs[w].owner])
    /\ sent' = WsSend(readyState, procs[w].owner, RestartNotice)
    /\ timers' = IF readyState[procs[w].owner] = "OPEN"
                 THEN SetRestartTimer(timers, procs[w].owner, w)
                 ELSE timers
    /\ lastWrite' = NoWrite
    /\ UNCHANGED <<now, readyState, url, clientId, chatProcess, recognitionProcess,
                   recognitionProcesses>>
    /\ UNCHANGED framerVars
    /\ UNCHANGED clientVars

\* a recognition 'close' handler that leaves the registry entry in place
RecognitionProcessClose_NoDelete(w) ==
    /\ w \in Pids
    /\ procs[w].alive
    /\ ~IsChatWs(procs[w].owner)
    /\ procs' = Exited(procs, w)
    /\ sent' = << >>
    /\ lastWrite' = NoWrite
    /\ UNCHANGED <<now, readyState, url, clientId, chatProcess, recognitionProcess,
                   recognitionProcesses, chatProcesses, timers>>
    /\ UNCHANGED framerVars
    /\ UNCHANGED clientVars

\* a recognition 'close' handler that tells the client, as the chat one does
RecognitionProcessClose_Notify(w) ==
    /\ w \in Pids
    /\ procs[w].alive
    /\ ~IsChatWs(procs[w].owner)
    /\ procs' = Exited(procs, w)
    /\ recognitionProcesses' =
           MapDelete(recognitionProcesses, clientId[procs[w].owner])
    /\ UNCHANGED <<now, readyState, url, clientId, chatProcess, recognitionProcess,
                   chatProcesses, timers>>
    /\ sent' = WsSend(readyState, procs[w].owner, RestartNotice)
    /\ lastWrite' = NoWrite
    /\ UNCHANGED framerVars
    /\ UNCHANGED clientVars

\* recognitionProcess.on('close')
RecognitionProcessClose(w) ==
    /\ w \in Pids
    /\ procs[w].alive
    /\ ~IsChatWs(procs[w].owner)
    /\ procs' = Exited(procs, w)
    /\ recognitionProcesses' =
           MapDelete(recognitionProcesses, clientId[procs[w].owner])
    /\ UNCHANGED <<now, readyState, url, clientId, chatProcess, recognitionProcess,
                   chatProcesses, timers>>
    /\ sent' = << >>
    /\ lastWrite' = NoWrite
    /\ UNCHANGED framerVars
    /\ UNCHANGED clientVars

\* ------------------------------------------------- the setTimeout callback
\* a timer that may fire at once
TimerExpired_Early(t) == now + BACKOFF_MS >= t.due

\* a timer fires no sooner than its delay
TimerExpired(t) == now >= t.due

\* a callback whose timer stays armed after it ran
RestartTimer_Keep(t, ok) ==
    /\ t \in timers
    /\ TimerExpired(t)
    /\ ok => Len(procs) < MaxWorkers
    /\ timers' = timers
    /\ StartChatProcess(clientId[t.conn], t.conn, ok, readyState)
    /\ lastWrite' = NoWrite
    /\ UNCHANGED <<now, readyState, url, clientId, chatProcess, recognitionProcess,
                   recognitionProcesses>>
    /\ UNCHANGED framerVars
    /\ UNCHANGED clientVars

\* the callback of setTimeout: startChatProcess(clientId, ws)
RestartTimer(t, ok) ==
    /\ t \in timers
    /\ TimerExpired(t)
    /\ ok => Len(procs) < MaxWorkers
    /\ timers' = timers \ {t}
    /\ StartChatProcess(clientId[t.conn], t.conn, ok, readyState)
    /\ lastWrite' = NoWrite
    /\ UNCHANGED <<now, readyState, url, clientId, chatProcess, recognitionProcess,
                   recognitionProcesses>>
    /\ UNCHANGED framerVars
    /\ UNCHANGED clientVars

\* ================================================================== framer
\* Text is a sequence of character codes, a chunk a sequence of bytes.
NL == 10                \* '\n'
REPLACEMENT == 65533    \* U+FFFD, what decoding puts for bytes it cannot decode

\* what a worker may write as one line (without the '\n'):
\*   1      "é"                 x       (one space)   (space)1
WorkerLines ==
    { <<49>>, <<34, 195, 169, 34>>, <<120>>, <<32>>, <<32, 49>> }

RECURSIVE SeqsUpTo(_, _)
SeqsUpTo(S, n) ==
    IF n = 0 THEN { << >> }
    ELSE SeqsUpTo(S, n - 1)
           \cup { Append(q, x) : q \in { r \in SeqsUpTo(S, n - 1) : Len(r) = n - 1 },
                                x \in S }

\* the worker's byte stream: every line followed by '\n'
RECURSIVE Serialize(_)
Serialize(M) ==
    IF M = << >> THEN << >> ELSE Head(M) \o <<NL>> \o Serialize(Tail(M))

\* data.toString(): UTF-8 decoding of one chunk on its own (bytes of one- and
\* two-byte sequences); a lead byte without its continuation byte and a
\* continuation byte without its lead byte each decode to U+FFFD
RECURSIVE Utf8Decode(_)
Utf8Decode(bytes) ==
    IF bytes = << >> THEN << >>
    ELSE IF Head(bytes) < 128
         THEN <<Head(bytes)>> \o Utf8Decode(Tail(bytes))
    ELSE IF /\ Head(bytes) \in 194..223
            /\ Len(bytes) >= 2
            /\ bytes[2] \in 128..191
         THEN <<(Head(bytes) % 32) * 64 + (bytes[2] % 64)>>
                  \o Utf8Decode(Tail(Tail(bytes)))
    ELSE <<REPLACEMENT>> \o Utf8Decode(Tail(bytes))


\* buffer.split('\n')
RECURSIVE Split(_)
Split(text) ==
    IF \A i \in 1..Len(text) : text[i] # NL THEN <<text>>
    ELSE LET i == CHOOSE j \in 1..Len(text) :
                     text[j] = NL /\ \A k \in 1..(j - 1) : text[k] # NL
         IN <<SubSeq(text, 1, i - 1)>> \o Split(SubSeq(text, i + 1, Len(text)))

\* the array after lines.pop()
Popped(segs) == SubSeq(segs, 1, Len(segs) - 1)

\* String.prototype.trim()
IsWhiteSpace(ch) == ch \in {9, 10, 11, 12, 13, 32}

RECURSIVE TrimStart(_)
TrimStart(text) ==
    IF text # << >> /\ IsWhiteSpace(Head(text)) THEN TrimStart(Tail(text)) ELSE text

RECURSIVE TrimEnd(_)
TrimEnd(text) ==
    IF text # << >> /\ IsWhiteSpace(text[Len(text)])
    THEN TrimEnd(SubSeq(text, 1, Len(text) - 1))
    ELSE text

Trim(text) == TrimEnd(TrimStart(text))

\* JSON.parse on the JSON texts of the model: a number written with the
\* digits 1..9, or a string without escapes, with white space around it.
\* The parsed value is kept as its canonical text.
IsJsonWhiteSpace(ch) == ch \in {9, 10, 13, 32}

RECURSIVE JsonStrip(_)
JsonStrip(text) ==
    IF text # << >> /\ IsJsonWhiteSpace(Head(text)) THEN JsonStrip(Tail(text))
    ELSE IF text # << >> /\ IsJsonWhiteSpace(text[Len(text)])
         THEN JsonStrip(SubSeq(text, 1, Len(text) - 1))
    ELSE text

IsJsonNumber(t) == t # << >> /\ \A i \in 1..Len(t) : t[i] \in 49..57

IsJsonString(t) ==
    /\ Len(t) >= 2
    /\ t[1] = 34
    /\ t[Len(t)] = 34
    /\ \A i \in 2..(Len(t) - 1) : t[i] >= 32 /\ t[i] \notin {34, 92}

JsonParse(text) ==
    LET t == JsonStrip(text)
    IN IF IsJsonNumber(t) \/ IsJsonString(t)
       THEN [ok |-> TRUE, value |-> t]
       ELSE [ok |-> FALSE, value |-> << >>]

\* JSON.stringify of a parsed value: its canonical text
JsonStringify(value) == value

ChatIssueNotice ==
    [type |-> "system", message |-> "Chat service encountered an issue. Please try again."]

\* ws.send(text) as the client sees it
Relayed(text) == [type |-> "relay", json |-> text]

\* a loop that a malformed line ends: try/catch around the forEach
RECURSIVE RecognitionForEach_Abort(_, _, _)
RecognitionForEach_Abort(ls, rs, out) ==
    IF ls = << >> THEN out
    ELSE LET line == Head(ls)
             r == JsonParse(line)
         IN IF Trim(line) = << >>
            THEN RecognitionForEach_Abort(Tail(ls), rs, out)
            ELSE IF r.ok
            THEN RecognitionForEach_Abort(Tail(ls), rs,
                     [out EXCEPT !.sent =
                         IF rs = "OPEN"
                         THEN Append(@, Relayed(JsonStringify(r.value))) ELSE @])
            ELSE [out EXCEPT !.logged = Append(@, line)]

\* lines.forEach(...) of recognitionProcess.stdout.on('data'): out is what
\* has been sent and logged so far
RECURSIVE RecognitionForEach(_, _, _)
RecognitionForEach(ls, rs, out) ==
    IF ls = << >> THEN out
    ELSE LET line == Head(ls)
             r == JsonParse(line)
         IN IF Trim(line) = << >>
            THEN RecognitionForEach(Tail(ls), rs, out)
            ELSE IF r.ok
            THEN RecognitionForEach(Tail(ls), rs,
                     [out EXCEPT !.sent =
                         IF rs = "OPEN"
                         THEN Append(@, Relayed(JsonStringify(r.value))) ELSE @])
            ELSE RecognitionForEach(Tail(ls), rs,
                     [out EXCEPT !.logged = Append(@, line)])

\* a chat loop that only logs a line it cannot parse
RECURSIVE ChatForEach_Silent(_, _, _)
ChatForEach_Silent(ls, rs, out) ==
    IF ls = << >> THEN out
    ELSE LET line == Head(ls)
             r == JsonParse(line)
         IN IF Trim(line) = << >>
            THEN ChatForEach_Silent(Tail(ls), rs, out)
            ELSE IF r.ok
            THEN ChatForEach_Silent(Tail(ls), rs,
                     IF rs = "OPEN"
                     THEN [out EXCEPT !.sent = Append(@, Relayed(JsonStringify(r.value)))]
                     ELSE out)
            ELSE ChatForEach_Silent(Tail(ls), rs,
                     [out EXCEPT !.logged = Append(@, line)])

\* a loop that sends without looking at ws.readyState
RECURSIVE ChatForEach_NoCheck(_, _, _)
ChatForEach_NoCheck(ls, rs, out) ==
    IF ls = << >> THEN out
    ELSE LET line == Head(ls)
             r == JsonParse(line)
         IN IF Trim(line) = << >>
            THEN ChatForEach_NoCheck(Tail(ls), rs, out)
            ELSE IF r.ok
            THEN ChatForEach_NoCheck(Tail(ls), rs,
                     [out EXCEPT !.sent = Append(@, Relayed(JsonStringify(r.value)))])
            ELSE ChatForEach_NoCheck(Tail(ls), rs,
                     [out EXCEPT !.logged = Append(@, line),
                                 !.sent = Append(@, ChatIssueNotice)])

\* lines.forEach(...) of chatProcess.stdout.on('data')
RECURSIVE ChatForEach(_, _, _)
ChatForEach(ls, rs, out) ==
    IF ls = << >> THEN out
    ELSE LET line == Head(ls)
             r == JsonParse(line)
         IN IF Trim(line) = << >>
            THEN ChatForEach(Tail(ls), rs, out)
            ELSE IF r.ok
            THEN ChatForEach(Tail(ls), rs,
                     [out EXCEPT !.sent =
                         IF rs = "OPEN"
                         THEN Append(@, Relayed(JsonStringify(r.value))) ELSE @])
            ELSE ChatForEach(Tail(ls), rs,
                     [out EXCEPT !.logged = Append(@, line),
                                 !.sent = IF rs = "OPEN"
                                          THEN Append(@, ChatIssueNotice) ELSE @])

\* ------------------------------------ stdout 'data' in the supervisor's runs
\* what worker w writes there: a line holding its pid as a JSON number, or a
\* line that is not JSON
PidLine(w) == <<48 + w>>

SupervisorLines(w) == {PidLine(w), <<120>>}

\* the ws.send calls of a handler closed over the ws of connection c
SentTo(c, msgs) == [i \in 1..Len(msgs) |-> [conn |-> c, msg |-> msgs[i]]]

\* chatProcess.stdout.on('data') for a chunk that is one whole line (buffer
\* is empty before and after)
ChatStdoutLine(w, line) ==
    /\ w \in Pids
    /\ procs[w].alive
    /\ IsChatWs(procs[w].owner)
    /\ sent' = SentTo(procs[w].owner,
                      ChatForEach(Popped(Split(Utf8Decode(line \o <<NL>>))),
                                  readyState[procs[w].owner],
                                  [sent |-> << >>, logged |-> << >>]).sent)
    /\ lastWrite' = NoWrite
    /\ UNCHANGED <<now, readyState, url, clientId, chatProcess, recognitionProcess,
                   recognitionProcesses, chatProcesses, procs, timers>>
    /\ UNCHANGED framerVars
    /\ UNCHANGED clientVars

\* recognitionProcess.stdout.on('data') for a chunk that is one whole line
RecognitionStdoutLine(w, line) ==
    /\ w \in Pids
    /\ procs[w].alive
    /\ ~IsChatWs(procs[w].owner)
    /\ sent' = SentTo(procs[w].owner,
                      RecognitionForEach(Popped(Split(Utf8Decode(line \o <<NL>>))),
                                  readyState[procs[w].owner],
                                  [sent |-> << >>, logged |-> << >>]).sent)
    /\ lastWrite' = NoWrite
    /\ UNCHANGED <<now, readyState, url, clientId, chatProcess, recognitionProcess,
                   recognitionProcesses, chatProcesses, procs, timers>>
    /\ UNCHANGED framerVars
    /\ UNCHANGED clientVars

Next ==
    \/ Tick
    \/ \E c \in Conns, u \in Urls, ok \in BOOLEAN : Connect(c, u, ok)
    \/ \E c \in Conns, m \in ClientMessages : ChatWsMessage(c, m)
    \/ \E c \in Conns, m \in ClientMessages : RecognitionWsMessage(c, m)
    \/ \E c \in Conns : ChatWsClose(c)
    \/ \E c \in Conns : RecognitionWsClose(c)
    \/ \E w \in Pids : ChatProcessClose(w)
    \/ \E w \in Pids : RecognitionProcessClose(w)
    \/ \E t \in timers, ok \in BOOLEAN : RestartTimer(t, ok)
    \/ \E w \in Pids : \E line \in SupervisorLines(w) : ChatStdoutLine(w, line)
    \/ \E w \in Pids : \E line \in SupervisorLines(w) : RecognitionStdoutLine(w, line)

Spec == Init /\ [][Next]_vars

\* ------------------------------------------------ the chat restart loop
\* chat sessions only: connect, disconnect, worker exit, restart timer
RestartNext ==
    \/ Tick
    \/ \E c \in Conns, ok \in BOOLEAN : Connect(c, "/chat", ok)
    \/ \E c \in Conns : ChatWsClose(c)
    \/ \E w \in Pids : ChatProcessClose(w)
    \/ \E t \in timers, ok \in BOOLEAN : RestartTimer(t, ok)

\* the clock moves on and the event loop runs a timer whose delay has passed
LiveSpec ==
    /\ Init
    /\ [][RestartNext]_vars
    /\ WF_vars(Tick)
    /\ WF_vars(\E t \in timers, ok \in BOOLEAN : RestartTimer(t, ok))

\* ------------------------------------------------ any request target
\* req.url of an upgrade request: the server is created without a path
\* option, so every target reaches the connection handler
Targets == {"/chat", "/ws", "/", "/chat/"}

\* the connection, message and close handlers with any target, while the
\* workers keep running
KindNext ==
    \/ Tick
    \/ \E c \in Conns, u \in Targets, ok \in BOOLEAN : Connect(c, u, ok)
    \/ \E c \in Conns, m \in ClientMessages : ChatWsMessage(c, m)
    \/ \E c \in Conns, m \in ClientMessages : RecognitionWsMessage(c, m)
    \/ \E c \in Conns : ChatWsClose(c)
    \/ \E c \in Conns : RecognitionWsClose(c)

KindSpec == Init /\ [][KindNext]_vars

\* what a worker may leave unterminated when it stops writing:  nothing, 1
Tails == { << >>, <<49>> }

FramerInit ==
    /\ SupervisorInit
    /\ ClientIdle
    /\ emitted \in SeqsUpTo(WorkerLines, MaxLines)
    /\ tail \in Tails
    /\ tail # << >> => Len(emitted) < MaxLines
    /\ stdout = Serialize(emitted) \o tail
    /\ handler \in {"chat", "recognition"}
    /\ buffer = << >>
    /\ wsReadyState = "OPEN"
    /\ delivered = << >>
    /\ errorLog = << >>
    /\ lines = << >>
    /\ received = << >>
    /\ stdin = << >>
    /\ stderrLog = << >>
    /\ exited = FALSE

\* the 'data' event with the next n bytes of the worker's output
StdoutData(n) ==
    /\ n \in 0..Len(stdout)
    /\ LET data == SubSeq(stdout, 1, n)
           segs == Split(buffer \o Utf8Decode(data))
           out == IF handler = "chat"
                  THEN ChatForEach(Popped(segs), wsReadyState,
                                   [sent |-> delivered, logged |-> errorLog])
                  ELSE RecognitionForEach(Popped(segs), wsReadyState,
                                   [sent |-> delivered, logged |-> errorLog])
       IN /\ stdout' = SubSeq(stdout, n + 1, Len(stdout))
          /\ buffer' = segs[Len(segs)]
          /\ lines' = lines \o Popped(segs)
          /\ delivered' = out.sent
          /\ errorLog' = out.logged
    /\ UNCHANGED <<emitted, handler, wsReadyState, received, stdin, stderrLog,
                   tail, exited>>
    /\ UNCHANGED supVars
    /\ UNCHANGED clientVars

\* the client goes away while the worker is still writing
ClientGone ==
    /\ wsReadyState = "OPEN"
    /\ wsReadyState' = "CLOSED"
    /\ UNCHANGED <<emitted, stdout, handler, buffer, delivered, errorLog, lines,
                   received, stdin, stderrLog, tail, exited>>
    /\ UNCHANGED supVars
    /\ UNCHANGED clientVars

\* data.query / data.image of a message that has no such property
UNDEFINED == "undefined"

\* what the client of this session can send: as ClientMessages, with the
\* text of the query (or the image of the frame) as payload
PayloadMessages ==
    [wellFormed : {TRUE}, type : {"query", "frame", "ping"},
     payload : {"a", "b", UNDEFINED}]
        \cup {[wellFormed |-> FALSE, type |-> "none", payload |-> "none"]}

\* JSON.stringify({query: data.query, timestamp: Date.now()}) + '\n'
\* (JSON.stringify leaves out a property whose value is undefined)
ChatStdinLine(m) ==
    IF m.payload = UNDEFINED
    THEN [timestamp |-> now]
    ELSE [query |-> m.payload, timestamp |-> now]

\* JSON.stringify({image: data.image, timestamp: Date.now()}) + '\n'
RecognitionStdinLine(m) ==
    IF m.payload = UNDEFINED
    THEN [timestamp |-> now]
    ELSE [image |-> m.payload, timestamp |-> now]

\* a write that overtakes the lines written before it
StdinAppend_Front(log, line) == <<line>> \o log

\* stdin.write(line): the pipe keeps the lines in the order of the calls
StdinAppend(log, line) == Append(log, line)

\* ws.on('message') of the session whose worker is writing (the closure's
\* process variable is set)
ClientMessage(m) ==
    /\ wsReadyState = "OPEN"
    /\ Len(emitted) + Len(tail) + Len(received) + Len(stderrLog) < MaxLines
    /\ received' = Append(received, m)
    /\ IF handler = "chat"
       THEN IF m.wellFormed
            THEN /\ stdin' = IF m.type = "query"
                             THEN StdinAppend(stdin, ChatStdinLine(m))
                             ELSE stdin
                 /\ delivered' = delivered
            ELSE /\ delivered' = Append(delivered, InvalidFormatNotice)
                 /\ stdin' = stdin
       ELSE /\ stdin' = IF m.wellFormed /\ m.type = "frame"
                        THEN StdinAppend(stdin, RecognitionStdinLine(m))
                        ELSE stdin
            /\ delivered' = delivered
    /\ UNCHANGED <<emitted, stdout, handler, buffer, wsReadyState, errorLog, lines,
                   stderrLog, tail, exited>>
    /\ UNCHANGED supVars
    /\ UNCHANGED clientVars

\* what a worker may write to stderr in one piece:   E   2
StderrTexts == { <<69>>, <<50>> }

\* a handler that passes the worker's diagnostics on to the client
StderrData_Relay(text) ==
    /\ ~exited
    /\ Len(emitted) + Len(tail) + Len(received) + Len(stderrLog) < MaxLines
    /\ stderrLog' = Append(stderrLog, text)
    /\ delivered' = IF wsReadyState = "OPEN"
                    THEN Append(delivered, Relayed(text))
                    ELSE delivered
    /\ UNCHANGED <<emitted, stdout, handler, buffer, wsReadyState, errorLog, lines,
                   received, stdin, tail, exited>>
    /\ UNCHANGED supVars
    /\ UNCHANGED clientVars

\* chatProcess.stderr.on('data') / recognitionProcess.stderr.on('data'):
\* logger.error only
StderrData(text) ==
    /\ ~exited
    /\ Len(emitted) + Len(tail) + Len(received) + Len(stderrLog) < MaxLines
    /\ stderrLog' = Append(stderrLog, text)
    /\ UNCHANGED <<emitted, stdout, handler, buffer, wsReadyState, delivered,
                   errorLog, lines, received, stdin, tail, exited>>
    /\ UNCHANGED supVars
    /\ UNCHANGED clientVars

\* a 'close' handler that takes what is left in the buffer for a last line
WorkerClose_Flush ==
    /\ ~exited
    /\ stdout = << >>
    /\ exited' = TRUE
    /\ LET out == IF handler = "chat"
                  THEN ChatForEach(<<buffer>>, wsReadyState,
                                   [sent |-> delivered, logged |-> errorLog])
                  ELSE RecognitionForEach(<<buffer>>, wsReadyState,
                                   [sent |-> delivered, logged |-> errorLog])
       IN /\ delivered' = IF handler = "chat" /\ wsReadyState = "OPEN"
                          THEN Append(out.sent, RestartNotice)
                          ELSE out.sent
          /\ errorLog' = out.logged
    /\ buffer' = << >>
    /\ UNCHANGED <<emitted, stdout, handler, wsReadyState, lines, received, stdin,
                   stderrLog, tail>>
    /\ UNCHANGED supVars
    /\ UNCHANGED clientVars

\* chatProcess.on('close') / recognitionProcess.on('close') as this
\* pipeline sees it, after the last 'data' event: the chat handler sends
\* its notice, neither handler looks at the buffer
WorkerClose ==
    /\ ~exited
    /\ stdout = << >>
    /\ exited' = TRUE
    /\ delivered' = IF handler = "chat" /\ wsReadyState = "OPEN"
                    THEN Append(delivered, RestartNotice)
                    ELSE delivered
    /\ UNCHANGED <<emitted, stdout, handler, buffer, wsReadyState, errorLog, lines,
                   received, stdin, stderrLog, tail>>
    /\ UNCHANGED supVars
    /\ UNCHANGED clientVars

FramerNext ==
    \/ \E n \in 0..Len(stdout) : StdoutData(n)
    \/ ClientGone
    \/ \E m \in PayloadMessages : ClientMessage(m)
    \/ \E text \in StderrTexts : StderrData(text)
    \/ WorkerClose

FramerSpec == FramerInit /\ [][FramerNext]_vars

\* ======================================================= recognition page
\* LiveRecognitionTab: sockets and interval timers are numbered in the
\* order they are made.

\* clearInterval(frameIntervalRef.current)
ClearInterval(I) == I \ {frameIntervalRef}

\* startStream up to its first await: connectWebSocket() unless connected
StartStream ==
    /\ starts < MaxStarts
    /\ starts' = starts + 1
    /\ IF connectionStatus # "connected"
       THEN LET k == Cardinality({j \in Sockets : socketState[j] # "NONE"}) + 1
            IN /\ socketState' = [socketState EXCEPT ![k] = "CONNECTING"]
               /\ wsRef' = k
       ELSE UNCHANGED <<socketState, wsRef>>
    /\ UNCHANGED <<connectionStatus, processingRef, intervals, frameIntervalRef,
                   framesSent, messagesReceived>>
    /\ UNCHANGED <<supVars, framerVars>>

\* video.onloadedmetadata of a startStream whose camera request succeeded
OnLoadedMetadata ==
    /\ frameIntervalRef < starts
    /\ intervals' = intervals \cup {frameIntervalRef + 1}
    /\ frameIntervalRef' = frameIntervalRef + 1
    /\ UNCHANGED <<socketState, wsRef, connectionStatus, processingRef, starts,
                   framesSent, messagesReceived>>
    /\ UNCHANGED <<supVars, framerVars>>

\* stopStream
StopStream ==
    /\ intervals' = ClearInterval(intervals)
    /\ UNCHANGED <<socketState, wsRef, connectionStatus, processingRef, starts,
                   frameIntervalRef, framesSent, messagesReceived>>
    /\ UNCHANGED <<supVars, framerVars>>

\* an onopen handler that forgets the frame in flight
OnOpen_Reset(k) ==
    /\ socketState[k] = "CONNECTING"
    /\ socketState' = [socketState EXCEPT ![k] = "OPEN"]
    /\ connectionStatus' = "connected"
    /\ processingRef' = FALSE
    /\ UNCHANGED <<wsRef, starts, intervals, frameIntervalRef, framesSent,
                   messagesReceived>>
    /\ UNCHANGED <<supVars, framerVars>>

\* wsRef.current.onopen
OnOpen(k) ==
    /\ socketState[k] = "CONNECTING"
    /\ socketState' = [socketState EXCEPT ![k] = "OPEN"]
    /\ connectionStatus' = "connected"
    /\ UNCHANGED <<wsRef, processingRef, starts, intervals, frameIntervalRef,
                   framesSent, messagesReceived>>
    /\ UNCHANGED <<supVars, framerVars>>

\* wsRef.current.onclose
OnClose(k) ==
    /\ socketState[k] \in {"CONNECTING", "OPEN"}
    /\ socketState' = [socketState EXCEPT ![k] = "CLOSED"]
    /\ connectionStatus' = "disconnected"
    /\ intervals' = ClearInterval(intervals)
    /\ UNCHANGED <<wsRef, processingRef, starts, frameIntervalRef, framesSent,
                   messagesReceived>>
    /\ UNCHANGED <<supVars, framerVars>>

\* wsRef.current.onerror
OnError(k) ==
    /\ socketState[k] \in {"CONNECTING", "OPEN"}
    /\ connectionStatus' = "error"
    /\ UNCHANGED <<socketState, wsRef, processingRef, starts, intervals,
                   frameIntervalRef, framesSent, messagesReceived>>
    /\ UNCHANGED <<supVars, framerVars>>

\* wsRef.current.onmessage: whatever the message is, and whether or not
\* handling it throws, the flag is cleared
OnMessage(k) ==
    /\ socketState[k] = "OPEN"
    /\ messagesReceived < MaxFrames
    /\ messagesReceived' = messagesReceived + 1
    /\ processingRef' = FALSE
    /\ UNCHANGED <<socketState, wsRef, connectionStatus, starts, intervals,
                   frameIntervalRef, framesSent>>
    /\ UNCHANGED <<supVars, framerVars>>

\* captureAndSendFrame, called by a running interval timer; ready tells
\* whether video and canvas are there and the video is playing
CaptureAndSendFrame(ready) ==
    /\ intervals # {}
    /\ framesSent < MaxFrames
    /\ IF processingRef \/ wsRef = NULL
       THEN UNCHANGED <<processingRef, framesSent>>
       ELSE IF socketState[wsRef] # "OPEN" \/ ~ready
       THEN UNCHANGED <<processingRef, framesSent>>
       ELSE /\ processingRef' = TRUE
            /\ framesSent' = framesSent + 1
    /\ UNCHANGED <<socketState, wsRef, connectionStatus, starts, intervals,
                   frameIntervalRef, messagesReceived>>
    /\ UNCHANGED <<supVars, framerVars>>

ClientNext ==
    \/ StartStream
    \/ OnLoadedMetadata
    \/ StopStream
    \/ \E k \in Sockets : OnOpen(k)
    \/ \E k \in Sockets : OnClose(k)
    \/ \E k \in Sockets : OnError(k)
    \/ \E k \in Sockets : OnMessage(k)
    \/ \E ready \in BOOLEAN : CaptureAndSendFrame(ready)

ClientSpec == Init /\ [][ClientNext]_vars

TypeOK ==
    /\ now \in 0..MaxTime
    /\ readyState \in [Conns -> {"NONE", "OPEN", "CLOSED"}]
    /\ Len(procs) <= MaxWorkers

\* =================================================================== claims
\* every accepted connection has closed
AllClosed ==
    /\ \E c \in Conns : readyState[c] = "CLOSED"
    /\ \A c \in Conns : readyState[c] # "OPEN"

\* C1 - No-leak on disconnect: after connects and disconnects only (no
\* worker exited on its own), once all connections are closed both
\* registries are empty and every spawned worker has had kill() called.
C1_NoLeakOnDisconnect ==
    (AllClosed /\ \A w \in Pids : ~procs[w].spont)
        => /\ DOMAIN recognitionProcesses = {}
           /\ DOMAIN chatProcesses = {}
           /\ \A w \in Pids : procs[w].killed

\* C2 - No leak under any interleaving of connect, disconnect, worker exit
\* and timer events: when all connections are closed and no restart timer is
\* pending, both registries are empty and every spawned worker has exited or
\* been sent kill().  Stated for the runs in which the accepted connections
\* got distinct ids, the case that does not rest on C4.
C2_NoLeakAnyInterleaving ==
    ( /\ AllClosed
      /\ timers = {}
      /\ \A c, d \in Conns :
            (c # d /\ readyState[c] # "NONE" /\ readyState[d] # "NONE")
                => clientId[c] # clientId[d] )
        => /\ DOMAIN recognitionProcesses = {}
           /\ DOMAIN chatProcesses = {}
           /\ \A w \in Pids : ~procs[w].alive \/ procs[w].killed

\* C3 - stopped is terminal: once a connection has closed, no worker is
\* spawned for it again, also when it closed during the backoff wait.
C3_StoppedIsTerminal ==
    [][\A c \in Conns : readyState[c] = "CLOSED"
          => \A w \in 1..Len(procs') : w > Len(procs) => procs'[w].owner # c]_vars

\* C4 - session ids are unique: two distinct accepted connections never have
\* the same clientId, whether both are live or one was destroyed before.
C4_UniqueIds ==
    \A c, d \in Conns :
        (c # d /\ readyState[c] # "NONE" /\ readyState[d] # "NONE")
            => clientId[c] # clientId[d]

\* C5 - Chat restart cadence: a chat worker that exits on its own while its
\* client is open makes the handler send the restart notice and spawn
\* nothing yet; the replacement is spawned only by the timer set with the
\* notice, not before BACKOFF_MS have passed since the notice, and is
\* registered under the id of the same connection.
C5_ChatRestartCadence ==
    [][/\ \A w \in Pids :
            ( /\ IsChatWs(procs[w].owner)
              /\ procs[w].alive /\ ~procs[w].killed /\ ~procs'[w].alive
              /\ readyState[procs[w].owner] = "OPEN" )
            => /\ sent' = <<[conn |-> procs[w].owner, msg |-> RestartNotice]>>
               /\ Len(procs') = Len(procs)
               /\ \E t \in timers' \ timers :
                      t.conn = procs[w].owner /\ t.due = now + BACKOFF_MS
       /\ \A t \in timers \ timers' :
            /\ now >= t.due
            /\ Len(procs') > Len(procs)
                 => /\ procs'[Len(procs')].owner = t.conn
                    /\ MapHas(chatProcesses', clientId[t.conn])
                    /\ chatProcesses'[clientId[t.conn]] = Len(procs')
       /\ \A w \in 1..Len(procs') :
            (w > Len(procs) /\ readyState[procs'[w].owner] # "NONE")
                 => \E t \in timers \ timers' : t.conn = procs'[w].owner
      ]_vars

\* a replacement chat worker runs for an open connection, registered under
\* the connection's id, after the backoff
C5_Witness ==
    \E w \in Pids :
        /\ IsChatWs(procs[w].owner)
        /\ readyState[procs[w].owner] = "OPEN"
        /\ chatProcess[procs[w].owner] \notin {NULL, w}
        /\ procs[chatProcess[procs[w].owner]].spont
        /\ procs[w].alive
        /\ MapHas(chatProcesses, clientId[procs[w].owner])
        /\ chatProcesses[clientId[procs[w].owner]] = w
        /\ now >= BACKOFF_MS

\* C6 - after a chat restart, every query the client sends is written to the
\* replacement (live) worker, not to the exited one: a write made for a chat
\* connection whose latest worker is a live replacement went to that worker.
C6_WritesReachLiveWorker ==
    \A w \in Pids :
        ( /\ lastWrite.conn # NULL
          /\ IsChatWs(lastWrite.conn)
          /\ procs[w].owner = lastWrite.conn
          /\ \A v \in Pids : procs[v].owner = lastWrite.conn => v <= w
          /\ \E v \in Pids : procs[v].owner = lastWrite.conn /\ v < w
          /\ procs[w].alive )
            => lastWrite.pid = w

\* C7 - once a worker's exit has been observed, no write to its input is
\* attempted, for recognition and chat sessions alike.
C7_NoWriteAfterExit ==
    lastWrite.conn # NULL => lastWrite.alive

\* C8 - Recognition non-restart: the step that handles a recognition
\* worker's own exit removes the session's id from the registry and spawns
\* nothing, and no later step spawns a worker for that session.
C8_RecognitionNonRestart ==
    [][\A w \in Pids : ~IsChatWs(procs[w].owner) =>
          /\ (procs[w].alive /\ ~procs[w].killed /\ ~procs'[w].alive)
                => /\ ~MapHas(recognitionProcesses', clientId[procs[w].owner])
                   /\ Len(procs') = Len(procs)
          /\ procs[w].spont
                => \A v \in 1..Len(procs') :
                       v > Len(procs) => procs'[v].owner # procs[w].owner
      ]_vars

\* a recognition worker has exited on its own, its client still connected
C8_Witness ==
    \E w \in Pids :
        /\ ~IsChatWs(procs[w].owner)
        /\ procs[w].spont
        /\ readyState[procs[w].owner] = "OPEN"
        /\ recognitionProcess[procs[w].owner] = w

\* the characters of a text that one byte encodes
Ascii(text) == SelectSeq(text, LAMBDA ch : ch < 128)

\* C9 - Chunk invariance: when the worker wrote a sequence of JSON messages,
\* each followed by '\n', then however the bytes were cut into chunks, the
\* lines split off the buffer are exactly those messages, in order.
C9_ChunkInvariance ==
    ( /\ stdout = << >>
      /\ \A i \in 1..Len(emitted) : JsonParse(Utf8Decode(emitted[i])).ok )
        => lines = [i \in 1..Len(emitted) |-> Utf8Decode(emitted[i])]

\* C10 - Malformed line tolerance: when a recognition worker's whole output
\* has been read and the client is still connected, the client was sent one
\* message per valid line, in the order of the lines (and equal to them up
\* to white space around the value and characters outside ASCII), nothing
\* for a malformed line, and every malformed line was logged.
C10_MalformedLineTolerance ==
    (handler = "recognition" /\ stdout = << >> /\ wsReadyState = "OPEN")
        => LET IsValid(m) == /\ Trim(Utf8Decode(m)) # << >>
                             /\ JsonParse(Utf8Decode(m)).ok
               IsBad(m) == /\ Trim(Utf8Decode(m)) # << >>
                           /\ ~JsonParse(Utf8Decode(m)).ok
               valid == SelectSeq(emitted, IsValid)
               bad == SelectSeq(emitted, IsBad)
           IN /\ Len(delivered) = Len(valid)
              /\ \A i \in 1..Len(valid) :
                    /\ delivered[i].type = "relay"
                    /\ Ascii(delivered[i].json)
                         = Ascii(JsonParse(Utf8Decode(valid[i])).value)
              /\ errorLog = [i \in 1..Len(bad) |-> Utf8Decode(bad[i])]

\* a malformed line between two valid ones has been read: two messages
\* sent, one line logged
C10_Witness ==
    /\ handler = "recognition"
    /\ stdout = << >>
    /\ wsReadyState = "OPEN"
    /\ Len(emitted) = 3
    /\ JsonParse(Utf8Decode(emitted[1])).ok
    /\ emitted[2] = <<120>>
    /\ JsonParse(Utf8Decode(emitted[3])).ok
    /\ emitted[1] # emitted[3]
    /\ Len(delivered) = 2
    /\ errorLog = << <<120>> >>

\* C11 - Isolation: a message received on one connection is written only to
\* a worker spawned for that connection, and a line a worker wrote is sent
\* only to the client of the connection it was spawned for.
C11_Isolation ==
    /\ lastWrite.conn # NULL => procs[lastWrite.pid].owner = lastWrite.conn
    /\ \A i \in 1..Len(sent) :
          sent[i].msg.type = "relay"
              => \E w \in Pids : /\ sent[i].msg.json = PidLine(w)
                                 /\ procs[w].owner = sent[i].conn

\* two sessions of the same kind and id are open, each with its own live
\* worker, and a message of one of them has just been written to its worker
C11_Witness ==
    \E c, d \in Conns :
        /\ c # d
        /\ readyState[c] = "OPEN" /\ readyState[d] = "OPEN"
        /\ url[c] = url[d]
        /\ clientId[c] = clientId[d]
        /\ \E w, v \in Pids : /\ procs[w].owner = c /\ procs[w].alive
                              /\ procs[v].owner = d /\ procs[v].alive
        /\ lastWrite.conn = c

\* the messages among the ws.send calls that relay a worker's line
Relays(msgs) == SelectSeq(msgs, LAMBDA x : x.type = "relay")

\* a line (bytes or text) that the 'data' handlers parse and relay
IsRelayable(text) == Trim(text) # << >> /\ JsonParse(text).ok

\* C12 - Per-session FIFO relay: the relayed messages sent to the client are,
\* in order, the valid lines the worker wrote (all of those read so far
\* while the client is open; equal to them up to white space around the
\* value and characters outside ASCII), and the lines written to the
\* worker's input are, in order, one per accepted client message.
C12_FifoRelay ==
    LET validEmitted == SelectSeq(emitted, LAMBDA m : IsRelayable(Utf8Decode(m)))
        validRead == SelectSeq(lines, IsRelayable)
        accepted == SelectSeq(received,
                        LAMBDA m : m.wellFormed /\ m.type =
                            (IF handler = "chat" THEN "query" ELSE "frame"))
    IN /\ Len(Relays(delivered)) <= Len(validEmitted)
       /\ wsReadyState = "OPEN" => Len(Relays(delivered)) = Len(validRead)
       /\ \A i \in 1..Len(Relays(delivered)) :
             Ascii(Relays(delivered)[i].json)
                 = Ascii(JsonParse(Utf8Decode(validEmitted[i])).value)
       /\ Len(stdin) = Len(accepted)
       /\ \A i \in 1..Len(stdin) :
             stdin[i] = IF handler = "chat"
                        THEN ChatStdinLine(accepted[i])
                        ELSE RecognitionStdinLine(accepted[i])

\* the worker's line was relayed between two different accepted messages of
\* the client
C12_Witness ==
    /\ Len(stdin) = 2
    /\ stdin[1] # stdin[2]
    /\ Len(Relays(delivered)) = 1
    /\ stdout = << >>

\* C13 - Outbound relay: a step that reads lines while the client is OPEN
\* sends, for every line that parses, the parsed value unchanged, in order;
\* while the client is not OPEN no step sends anything, and nothing read
\* then is sent later.
C13_OutboundRelay ==
    [][LET new == SubSeq(lines', Len(lines) + 1, Len(lines'))
           newValid == SelectSeq(new, IsRelayable)
       IN /\ wsReadyState = "OPEN"
               => Relays(delivered') = Relays(delivered) \o
                      [i \in 1..Len(newValid) |-> Relayed(JsonParse(newValid[i]).value)]
          /\ wsReadyState # "OPEN" => delivered' = delivered
      ]_vars

\* one valid line was relayed while the client was open, another one read
\* after the client had gone was dropped
C13_Witness ==
    /\ wsReadyState = "CLOSED"
    /\ stdout = << >>
    /\ Len(Relays(delivered)) = 1
    /\ Len(SelectSeq(lines, IsRelayable)) = 2

\* the registry a connection's handlers use, and the workers spawned for it
RegistryOf(c) == IF IsChatWs(c) THEN chatProcesses ELSE recognitionProcesses

WorkersOf(c) == {w \in Pids : procs[w].owner = c}

\* C14 - Registry invariant: for every session, if its id is absent from
\* the registry then every worker spawned for it has exited or had kill()
\* called; if its id is present, the entry is the live worker spawned last
\* for that session.
C14_RegistryInvariant ==
    \A c \in Conns :
        readyState[c] # "NONE" =>
            /\ ~MapHas(RegistryOf(c), clientId[c])
                  => \A w \in WorkersOf(c) : ~procs[w].alive \/ procs[w].killed
            /\ MapHas(RegistryOf(c), clientId[c])
                  => /\ RegistryOf(c)[clientId[c]] \in WorkersOf(c)
                     /\ procs[RegistryOf(c)[clientId[c]]].alive
                     /\ \A w \in WorkersOf(c) : w <= RegistryOf(c)[clientId[c]]

\* C15 - At most one live worker per session: no session ever has two
\* workers alive at once, and a worker is spawned for a session only when
\* every worker spawned for it before has exited.
C15_OneLiveWorker ==
    /\ \A c \in Conns : Cardinality({w \in WorkersOf(c) : procs[w].alive}) <= 1
    /\ \A w \in Pids : procs[w].alive
          => \A v \in WorkersOf(procs[w].owner) : v < w => ~procs[v].alive

\* a replacement is running for a session whose first worker has exited
C15_Witness ==
    \E c \in Conns : \E v, w \in WorkersOf(c) :
        v < w /\ procs[w].alive /\ ~procs[v].alive /\ readyState[c] = "OPEN"

\* the last attempt to spawn a worker for connection c failed: c was
\* accepted, has no worker running and no restart pending, and either never
\* had a worker or is still open (an exit seen on an open chat connection
\* always sets the restart timer)
SpawnFailed(c) ==
    /\ readyState[c] # "NONE"
    /\ \A w \in WorkersOf(c) : ~procs[w].alive
    /\ \A t \in timers : t.conn # c
    /\ WorkersOf(c) = {} \/ (IsChatWs(c) /\ readyState[c] = "OPEN")

\* C16 - Spawn failure: a spawn that fails, at connection time or from the
\* restart timer, sends the client exactly one system notice if it is open
\* (none otherwise) and inserts nothing into the registries; afterwards no
\* message of that session causes a write to any worker's stdin.
C16_SpawnFailure ==
    [][\A c \in Conns :
          /\ ( \/ readyState[c] = "NONE" /\ readyState'[c] = "OPEN"
               \/ \E t \in timers \ timers' : t.conn = c )
             /\ procs' = procs
                => /\ sent' = IF readyState'[c] = "OPEN"
                              THEN <<[conn |-> c,
                                      msg |-> IF IsChatWs(c)'
                                              THEN ChatSpawnFailNotice
                                              ELSE RecognitionSpawnFailNotice]>>
                              ELSE << >>
                   /\ chatProcesses' = chatProcesses
                   /\ recognitionProcesses' = recognitionProcesses
          /\ SpawnFailed(c) => lastWrite'.conn # c
      ]_vars

\* C17 - Only spontaneous termination restarts: when the exit of a chat
\* worker is observed after kill() was called on it, no restart notice is
\* sent and no restart is scheduled; when it is observed without a kill()
\* and the client is open, the notice is sent and the restart scheduled.
C17_OnlySpontaneousRestarts ==
    [][\A w \in Pids :
          (procs[w].alive /\ ~procs'[w].alive /\ IsChatWs(procs[w].owner))
              => /\ procs[w].killed => sent' = << >> /\ timers' = timers
                 /\ (~procs[w].killed /\ readyState[procs[w].owner] = "OPEN")
                       => /\ sent' = <<[conn |-> procs[w].owner, msg |-> RestartNotice]>>
                          /\ \E t \in timers' \ timers : t.conn = procs[w].owner
      ]_vars

\* C18 - Diagnostics are not relayed: everything sent to the client is
\* either the parsed value of a valid line the worker wrote to stdout or one
\* of the fixed notices; neither what the worker wrote to stderr nor the
\* text of a line that failed to parse is ever part of it.
C18_DiagnosticsNotRelayed ==
    \A i \in 1..Len(delivered) :
        \/ delivered[i] \in {ChatIssueNotice, InvalidFormatNotice, RestartNotice}
        \/ /\ delivered[i].type = "relay"
           /\ \E j \in 1..Len(lines) :
                 IsRelayable(lines[j]) /\ delivered[i].json = JsonParse(lines[j]).value
           /\ \A k \in 1..Len(stderrLog) : delivered[i].json # stderrLog[k]
           /\ \A k \in 1..Len(errorLog) : delivered[i].json # errorLog[k]

\* the chat worker wrote to stderr and wrote a malformed line to stdout
\* while its client was open: the client got the issue notice
C18_Witness ==
    /\ handler = "chat"
    /\ stderrLog # << >>
    /\ errorLog # << >>
    /\ \E i \in 1..Len(delivered) : delivered[i] = ChatIssueNotice
    /\ \E i \in 1..Len(delivered) : delivered[i].type = "relay"

\* C19 (as stated) - Session identity across restarts: while a chat session
\* whose worker exited on its own waits for the replacement, its id is still
\* a key of the registry.
C19_EntryKeptAcrossRestart ==
    \A t \in timers :
        readyState[t.conn] = "OPEN" => MapHas(chatProcesses, clientId[t.conn])

\* C19 (amended) - Session identity across restarts: the session id is kept
\* but the registry entry is not. Observing the exit of a chat worker
\* removes the entry under the session's id; the replacement spawned by the
\* restart timer is inserted under that same id, which has not changed.
C19_SameIdNewEntry ==
    [][/\ clientId' # clientId => \E c \in Conns : readyState[c] = "NONE"
                                     /\ \A d \in Conns \ {c} : clientId'[d] = clientId[d]
       /\ \A w \in Pids :
             (procs[w].alive /\ ~procs'[w].alive /\ IsChatWs(procs[w].owner))
                 => ~MapHas(chatProcesses', clientId[procs[w].owner])
       /\ \A t \in timers \ timers' :
             Len(procs') > Len(procs)
                 => /\ procs'[Len(procs')].owner = t.conn
                    /\ MapHas(chatProcesses', clientId'[t.conn])
                    /\ chatProcesses'[clientId'[t.conn]] = Len(procs')
      ]_vars

\* the replacement of an open chat session is registered under the id the
\* session got when it connected, some time after that
C19_Witness ==
    \E c \in Conns : \E v, w \in WorkersOf(c) :
        /\ v < w
        /\ IsChatWs(c)
        /\ readyState[c] = "OPEN"
        /\ MapHas(chatProcesses, clientId[c])
        /\ chatProcesses[clientId[c]] = w
        /\ clientId[c] # DecimalString(now)

\* C20 - Teardown is idempotent: a connection's 'close' handler that finds
\* no entry under the connection's id in its registry changes nothing but
\* the connection's own readyState: no process has kill() called on it, both
\* registries and the timers stay as they are, and nothing is sent.
C20_TeardownIdempotent ==
    [][\A c \in Conns :
          ( /\ readyState[c] = "OPEN"
            /\ readyState'[c] = "CLOSED"
            /\ ~MapHas(RegistryOf(c), clientId[c]) )
              => /\ procs' = procs
                 /\ chatProcesses' = chatProcesses
                 /\ recognitionProcesses' = recognitionProcesses
                 /\ timers' = timers
                 /\ chatProcess' = chatProcess
                 /\ recognitionProcess' = recognitionProcess
                 /\ sent' = << >>
                 /\ lastWrite' = NoWrite
      ]_vars

\* a connection closed after its only worker had exited on its own: the
\* teardown found no entry and the worker never had kill() called on it
C20_Witness ==
    \E c \in Conns :
        /\ readyState[c] = "CLOSED"
        /\ WorkersOf(c) # {}
        /\ \A w \in WorkersOf(c) : procs[w].spont /\ ~procs[w].killed
        /\ \A t \in timers : t.conn # c
        /\ IsChatWs(c)

\* C21 - Session kind classification: every connection is accepted; one
\* whose target is exactly "/chat" gets the chat worker, registry and
\* handlers, one with any other target gets the recognition ones; target
\* and kind of an accepted connection never change.
C21_KindClassification ==
    [][\A c \in Conns :
          /\ (readyState[c] = "NONE" /\ readyState'[c] # "NONE")
                => /\ readyState'[c] = "OPEN"
                   /\ IF url'[c] = "/chat"
                      THEN /\ recognitionProcess' = recognitionProcess
                           /\ recognitionProcesses' = recognitionProcesses
                           /\ IF Len(procs') > Len(procs)
                              THEN /\ chatProcess'[c] = Len(procs')
                                   /\ chatProcesses'[clientId'[c]] = Len(procs')
                              ELSE sent' = <<[conn |-> c, msg |-> ChatSpawnFailNotice]>>
                      ELSE /\ chatProcess' = chatProcess
                           /\ chatProcesses' = chatProcesses
                           /\ IF Len(procs') > Len(procs)
                              THEN /\ recognitionProcess'[c] = Len(procs')
                                   /\ recognitionProcesses'[clientId'[c]] = Len(procs')
                              ELSE sent' = <<[conn |-> c,
                                             msg |-> RecognitionSpawnFailNotice]>>
          /\ readyState[c] # "NONE"
                => /\ url'[c] = url[c]
                   /\ chatProcess'[c] # NULL => url[c] = "/chat"
                   /\ recognitionProcess'[c] # NULL => url[c] # "/chat"
                   /\ lastWrite'.conn = c
                         => lastWrite'.pid = IF url[c] = "/chat"
                                             THEN chatProcess[c]
                                             ELSE recognitionProcess[c]
                   /\ \A i \in 1..Len(sent') :
                         (sent'[i].conn = c /\ url[c] # "/chat")
                             => sent'[i].msg \notin {InvalidFormatNotice, RestartNotice}
      ]_vars

\* a connection to "/chat/" has a frame written to its recognition worker
\* while a connection to "/chat" is open with its chat worker
C21_Witness ==
    \E c, d \in Conns :
        /\ url[c] = "/chat/"
        /\ lastWrite.conn = c
        /\ lastWrite.pid = recognitionProcess[c]
        /\ url[d] = "/chat"
        /\ readyState[d] = "OPEN"
        /\ chatProcess[d] # NULL

\* C22 - Inbound shape filtering: a well-formed client message whose type
\* is not the one of the session's kind changes nothing (no write, client
\* still open, nothing sent); one of the expected type adds to the worker's
\* input exactly one line, with the two properties query (chat) or image
\* (recognition), as the client gave it, and timestamp.
C22_InboundShapeFiltering ==
    [][Len(received') > Len(received)
          => LET m == received'[Len(received')]
                 expected == IF handler = "chat" THEN "query" ELSE "frame"
                 field == IF handler = "chat" THEN "query" ELSE "image"
             IN /\ (m.wellFormed /\ m.type # expected)
                      => /\ stdin' = stdin
                         /\ wsReadyState' = wsReadyState
                         /\ delivered' = delivered
                         /\ buffer' = buffer
                         /\ handler' = handler
                /\ (m.wellFormed /\ m.type = expected)
                      => /\ Len(stdin') = Len(stdin) + 1
                         /\ SubSeq(stdin', 1, Len(stdin)) = stdin
                         /\ DOMAIN stdin'[Len(stdin')] = {field, "timestamp"}
                         /\ stdin'[Len(stdin')][field] = m.payload
                         /\ stdin'[Len(stdin')].timestamp = now
      ]_vars

\* the messages among the ws.send calls that are notices of the server
Notices(msgs) == SelectSeq(msgs, LAMBDA x : x.type # "relay")

\* a line the 'data' handlers fail to parse
IsMalformed(text) == Trim(text) # << >> /\ ~JsonParse(text).ok

\* C23 (as stated) - A DecodeError is only logged and skipped: for both
\* kinds, no message about a malformed line or message is ever sent to the
\* client, and nothing is written to the worker for a malformed client
\* message.
C23_DecodeErrorSilent ==
    /\ \A i \in 1..Len(delivered) :
          delivered[i] \notin {ChatIssueNotice, InvalidFormatNotice}
    /\ Len(stdin) <= Len(SelectSeq(received, LAMBDA m : m.wellFormed))

\* C23 (amended) - A DecodeError is logged and skipped, and on a chat
\* session reported by a fixed notice: a malformed worker line or client
\* message sends nothing on a recognition session; on a chat session with
\* an open client it sends exactly one fixed system notice per malformed
\* line or message; it never causes a write to the worker, and the valid
\* lines around it are relayed as before.
C23_DecodeErrorHandling ==
    [][LET new == SubSeq(lines', Len(lines) + 1, Len(lines'))
           newSent == SubSeq(delivered', Len(delivered) + 1, Len(delivered'))
           bad == SelectSeq(new, IsMalformed)
           badMessage == /\ Len(received') > Len(received)
                         /\ ~received'[Len(received')].wellFormed
       IN /\ SubSeq(delivered', 1, Len(delivered)) = delivered
          /\ (handler = "recognition" \/ wsReadyState # "OPEN")
                => Notices(newSent) = << >>
          /\ (handler = "chat" /\ wsReadyState = "OPEN" /\ ~badMessage
                                /\ exited' = exited)
                => Notices(newSent) = [i \in 1..Len(bad) |-> ChatIssueNotice]
          /\ (handler = "chat" /\ wsReadyState = "OPEN" /\ badMessage)
                => newSent = <<InvalidFormatNotice>>
          /\ (bad # << >> \/ badMessage) => stdin' = stdin
          /\ wsReadyState = "OPEN"
                => Len(Relays(newSent)) = Len(SelectSeq(new, IsRelayable))
          /\ errorLog' = errorLog \o bad
      ]_vars

\* a chat client got the issue notice for a malformed line, then the relay
\* of the valid line after it, and the notice for its own malformed message
C23_Witness ==
    /\ handler = "chat"
    /\ wsReadyState = "OPEN"
    /\ \E i, j, k \in 1..Len(delivered) :
          /\ i < j
          /\ delivered[i] = ChatIssueNotice
          /\ delivered[j].type = "relay"
          /\ delivered[k] = InvalidFormatNotice
    /\ stdin = << >>

\* C24 - Silent recognition exit: the step that handles a recognition
\* worker's own exit sends nothing to any client and leaves every
\* connection's readyState as it is; and once a recognition session's
\* worker has exited, no step sends that session's client anything.
C24_SilentRecognitionExit ==
    [][\A w \in Pids : ~IsChatWs(procs[w].owner) =>
          /\ (procs[w].alive /\ ~procs[w].killed /\ ~procs'[w].alive)
                => /\ sent' = << >>
                   /\ readyState' = readyState
          /\ procs[w].spont
                => \A i \in 1..Len(sent') : sent'[i].conn # procs[w].owner
      ]_vars

\* a recognition worker has just exited on its own: the step sent nothing,
\* the client is still open, the registry entry is gone
C24_Witness ==
    \E w \in Pids :
        /\ ~IsChatWs(procs[w].owner)
        /\ procs[w].spont
        /\ ~procs[w].killed
        /\ readyState[procs[w].owner] = "OPEN"
        /\ sent = << >>
        /\ lastWrite = NoWrite
        /\ ~MapHas(recognitionProcesses, clientId[procs[w].owner])

\* the last clock value a run reaches
Horizon == (MaxTime \div TickStep) * TickStep

C26_TeardownOwnWorkerOnly ==
    [][\A c \in Conns :
          (readyState[c] = "OPEN" /\ readyState'[c] = "CLOSED")
              => /\ \A w \in Pids :
                       (procs'[w].killed /\ ~procs[w].killed) => procs[w].owner = c
                 /\ \A id \in DOMAIN chatProcesses \ DOMAIN chatProcesses' :
                       procs[chatProcesses[id]].owner = c
                 /\ \A id \in DOMAIN recognitionProcesses \ DOMAIN recognitionProcesses' :
                       procs[recognitionProcesses[id]].owner = c
      ]_vars

\* the restart timers pending for connection c
TimersOf(c) == {t \in timers : t.conn = c}

\* C27 - Worker or timer, never both: a chat session never has a live
\* worker and a pending restart timer at once, and never more than one
\* pending restart timer.
C27_WorkerXorTimer ==
    \A c \in Conns :
        /\ Cardinality(TimersOf(c)) <= 1
        /\ ~( TimersOf(c) # {} /\ \E w \in WorkersOf(c) : procs[w].alive )

\* an open chat session waits for its second replacement
C27_Witness ==
    \E c \in Conns : \E v, w \in WorkersOf(c) :
        /\ v < w
        /\ procs[v].spont
        /\ procs[w].spont
        /\ TimersOf(c) # {}
        /\ readyState[c] = "OPEN"

\* C28 - Only newline-terminated lines: the lines split off the buffer are
\* never more than the '\n' the worker wrote; when all output has been read,
\* and still after the worker's exit has been handled, what the worker
\* wrote after its last '\n' is in the buffer and no message came of it;
\* an empty or white-space-only line is neither relayed nor logged.
C28_OnlyTerminatedLines ==
    /\ Len(lines) <= Len(emitted)
    /\ stdout = << >> => Len(lines) = Len(emitted) /\ buffer = Utf8Decode(tail)
    /\ Len(Relays(delivered)) <= Len(SelectSeq(lines, IsRelayable))
    /\ errorLog = SelectSeq(lines, IsMalformed)
    /\ \A i \in 1..Len(delivered) :
          delivered[i] = ChatIssueNotice => errorLog # << >>

\* the worker wrote a blank line, a valid line and an unterminated 1, then
\* exited with its client open: one relay, nothing logged, the 1 still in
\* the buffer
C28_Witness ==
    /\ exited
    /\ wsReadyState = "OPEN"
    /\ tail = <<49>>
    /\ buffer = <<49>>
    /\ \E i \in 1..Len(lines) : Trim(lines[i]) = << >>
    /\ Len(Relays(delivered)) = 1
    /\ errorLog = << >>

\* C29 - Client-side frame gating: a step that sends a frame finds the
\* current socket OPEN and the processing flag clear, and sets the flag;
\* the flag is cleared only by a step that handles a server message; the
\* frames sent never exceed the messages received by more than one.
C29_FrameGating ==
    [][/\ framesSent' > framesSent
          => /\ framesSent' = framesSent + 1
             /\ wsRef # NULL
             /\ socketState[wsRef] = "OPEN"
             /\ ~processingRef
             /\ processingRef'
       /\ (processingRef /\ ~processingRef')
          => messagesReceived' = messagesReceived + 1
       /\ framesSent' <= messagesReceived' + 1
      ]_vars

\* the page has sent its second frame after the answer to the first, on a
\* second socket, and waits for the answer
C29_Witness ==
    /\ framesSent = 2
    /\ messagesReceived = 1
    /\ processingRef
    /\ wsRef = 2
    /\ socketState[1] = "CLOSED"

====
